---- MODULE Spec2Model ----
(***************************************************************************)
(* Billing / entitlement layer: AppSumo code redemption and monthly usage  *)
(* periods (database/migration_appsumo_plans.sql).                         *)
(*                                                                         *)
(* Every RPC call of a plpgsql function runs as one PostgreSQL transaction *)
(* at READ COMMITTED: a SELECT sees the rows committed when the statement  *)
(* starts and takes no lock; an UPDATE locks the row until the transaction *)
(* ends, waits for a concurrent writer of the same row and then applies    *)
(* its SET list to the newest committed version; the writes of a call      *)
(* become visible together when the call returns, and a raised error       *)
(* discards them.                                                          *)
(***************************************************************************)
EXTENDS Integers, Sequences, FiniteSets, TLC

\* ----------------------------------------------------------------- bounds
\* Number of redeem_appsumo_code calls started in one behaviour.
MaxRedeems == 2
\* Number of usage_tracking function calls started in one behaviour.
MaxUsageCalls == 3
\* Number of increment_usage calls among them.
MaxIncrements == 2
\* Number of rows inserted into projects, automations and customers.
MaxDomainRows == 2
\* Number of project inserts the dashboards issue.
MaxInserts == 2

\* ------------------------------------------------------------- the values
\* SQL NULL of a text / uuid column.
NULL == "NULL"
\* SQL NULL of the INTEGER column organizations.appsumo_tier.
NullTier == 0
\* SQL NULL of a TIMESTAMPTZ column (NOW() is always >= 1).
NullTime == 0

\* Concurrent database sessions.
Procs == {"s1", "s2"}
\* Browser tabs showing the dashboard, and the organization their user
\* is a member of.
Tabs == {"t1", "t2"}
DashOrg == "o1"

\* Rows of organizations.
Orgs == {"o1", "o2"}
\* A uuid that is the id of no organization.
GhostOrg == "o9"
\* Values a caller can pass as org_id.
OrgArgs == Orgs \cup {GhostOrg, NULL}

\* The rows the migration inserts into appsumo_codes: code |-> tier.
SampleCodes ==
    [c \in {"T1-001", "T2-001", "T2-002", "T3-001"} |->
        CASE c = "T1-001" -> 1
          [] c = "T2-001" -> 2
          [] c = "T2-002" -> 2
          [] c = "T3-001" -> 3]
\* A code string that is never in the table.
UnknownCode == "BOGUS"
\* Values a caller can pass as code.
CodeArgs == DOMAIN SampleCodes \cup {UnknownCode}

\* The days CURRENT_DATE takes, in order: first and last days of two months.
Calendar == << [m |-> 1, d |-> 1], [m |-> 1, d |-> 31],
               [m |-> 2, d |-> 1], [m |-> 2, d |-> 28] >>
NoDate == [m |-> 0, d |-> 0]
\* The months of the calendar.
Months == {x.m : x \in {Calendar[i] : i \in 1..Len(Calendar)}}

\* The usage_type values increment_usage tests for, and one it does not.
CounterTypes == {"emails", "sms", "ai_analyses"}
UnknownType == "push"
UsageTypes == CounterTypes \cup {UnknownType}
\* Values a caller passes as amount.
Amounts == {5}

\* The tables update_usage_snapshots counts.
DomainTables == {"projects", "automations", "customers"}

\* ------------------------------------------------------------- the state
VARIABLES
    usage,      \* table usage_tracking (committed rows): a set of rows
    today,      \* CURRENT_DATE, as an index into Calendar
    codes,      \* table appsumo_codes (committed rows): code |-> row
    orgs,       \* table organizations (committed rows): id |-> row
    now,        \* the clock NOW() reads: the number of transactions started so far
    pc,         \* per session: position in the running function
    op,         \* per session: the function called last
    arg,        \* per session: its arguments
    loc,        \* per session: the DECLAREd variables of the running call
    result,     \* per session: what the last finished call returned
    codeLock,   \* row locks on appsumo_codes: code |-> holder
    successes,  \* history: code |-> number of redeem calls that returned success
    orgWrites,  \* history: code |-> number of organization rows updated for it
    live,       \* per organization: the rows it has in projects, automations
                \* (through its projects) and customers, as three counts
    requested,  \* history: org, month, usage_type |-> sum of the amounts of the
                \* increment_usage calls started for it
    quota,      \* the last evaluation of checkLimit: its arguments, the limits
                \* it resolved and what it returned
    currentOrganization,  \* per tab: the global of dashboard.js
    currentUsage,         \* per tab: the global of dashboard.js
    orgLimits,            \* per tab: the global of dashboard.js
    page,       \* per tab: how far initDashboard has come
    inflight,   \* per tab: project inserts awaited by handleCreateProject
    submit      \* history, per tab: what the last submit handler did

vars == <<usage, today, codes, orgs, now, pc, op, arg, loc, result,
          codeLock, successes, orgWrites, live, requested, quota,
          currentOrganization, currentUsage, orgLimits, page, inflight, submit>>

\* The variables of the redemption functions / of the usage functions.
redeemVars == <<codes, orgs, codeLock, successes, orgWrites>>
usageVars == <<usage, today, live, requested>>
\* The variables of the browser side.
dashVars == <<currentOrganization, currentUsage, orgLimits, page, inflight, submit>>
dashVarsButPage == <<currentOrganization, currentUsage, orgLimits, inflight, submit>>
clientVars == <<quota, dashVars>>
\* The variables of the database sessions.
sessionVars == <<now, pc, op, arg, loc, result>>

\* Column defaults of a new organizations row.
OrgDefault(plan, sub) ==
    [plan_type         |-> plan,
     appsumo_tier      |-> NullTier,
     appsumo_codes     |-> <<>>,
     subscription_tier |-> sub,
     plan_changed_at   |-> NullTime]

\* Column defaults of a new appsumo_codes row.
CodeRow(t) ==
    [tier               |-> t,
     is_redeemed        |-> FALSE,
     redeemed_by_org_id |-> NULL,
     redeemed_at        |-> NullTime]

NoLoc == [tier |-> NullTier, current_tier |-> NullTier, current_codes |-> <<>>,
          new_tier |-> NullTier]
\* A call's arguments, and the NOW() of its transaction.
NoArg == [org_id |-> NULL, code |-> NULL, at |-> NullTime,
          usage_type |-> NULL, amount |-> 0]

\* No usage_tracking row.
NoRow ==
    [id |-> 0, organization_id |-> NULL, period_start |-> NoDate, period_end |-> NoDate,
     emails_sent |-> 0, sms_sent |-> 0, ai_analyses_used |-> 0,
     projects_count |-> 0, automations_count |-> 0, customers_count |-> 0]

NoResult == [ok |-> FALSE, tier |-> NullTier, error |-> "", raised |-> FALSE,
             row |-> NoRow]

\* jsonb_build_object('success' / 'valid', true, 'tier', t)
Ok(t) == [NoResult EXCEPT !.ok = TRUE, !.tier = t]
\* jsonb_build_object('success' / 'valid', false, 'error', e)
Fail(e) == [NoResult EXCEPT !.error = e]
\* The call ended with a raised SQL error instead of a return value.
Raised(e) == [NoResult EXCEPT !.error = e, !.raised = TRUE]
\* RETURN usage_record
Record(r) == [NoResult EXCEPT !.ok = TRUE, !.row = r]

\* ------------------------------------------ plan limits (the browser side)
\* The keys of a limit set that hold a number.
LimitKeys == {"projects", "automations", "customers", "emails_monthly",
              "sms_monthly", "ai_analyses", "team_members"}

\* const PLAN_LIMITS (lines 4-117).
PLAN_LIMITS ==
    [free |->
        [name |-> "Free", projects |-> 1, automations |-> 3, customers |-> 100,
         emails_monthly |-> 500, sms_monthly |-> 0, ai_analyses |-> 10,
         team_members |-> 1, api_access |-> FALSE, webhooks |-> FALSE,
         priority_support |-> FALSE],
     subscription |->
        [growth |->
            [name |-> "Growth", price_monthly |-> 39, price_annual |-> 31,
             projects |-> 5, automations |-> 15, customers |-> 2000,
             emails_monthly |-> 5000, sms_monthly |-> 0, ai_analyses |-> 50,
             team_members |-> 3, api_access |-> FALSE, webhooks |-> FALSE,
             priority_support |-> FALSE],
         business |->
            [name |-> "Business", price_monthly |-> 99, price_annual |-> 79,
             projects |-> 15, automations |-> 50, customers |-> 10000,
             emails_monthly |-> 25000, sms_monthly |-> 0, ai_analyses |-> 200,
             team_members |-> 10, api_access |-> TRUE, webhooks |-> TRUE,
             priority_support |-> TRUE],
         enterprise |->
            [name |-> "Enterprise", price_monthly |-> 249, price_annual |-> 199,
             projects |-> -1, automations |-> -1, customers |-> 50000,
             emails_monthly |-> 100000, sms_monthly |-> 1000, ai_analyses |-> -1,
             team_members |-> -1, api_access |-> TRUE, webhooks |-> TRUE,
             priority_support |-> TRUE, dedicated_support |-> TRUE, sla |-> TRUE]],
     appsumo |->
        <<[name |-> "Lifetime Tier 1", badge |-> "AppSumo",
           projects |-> 3, automations |-> 10, customers |-> 1000,
           emails_monthly |-> 3000, sms_monthly |-> 0, ai_analyses |-> 30,
           team_members |-> 2, api_access |-> FALSE, webhooks |-> FALSE,
           priority_support |-> FALSE],
          [name |-> "Lifetime Tier 2", badge |-> "AppSumo",
           projects |-> 10, automations |-> 30, customers |-> 5000,
           emails_monthly |-> 15000, sms_monthly |-> 0, ai_analyses |-> 100,
           team_members |-> 5, api_access |-> TRUE, webhooks |-> FALSE,
           priority_support |-> TRUE],
          [name |-> "Lifetime Tier 3", badge |-> "AppSumo",
           projects |-> 25, automations |-> -1, customers |-> 15000,
           emails_monthly |-> 50000, sms_monthly |-> 0, ai_analyses |-> 300,
           team_members |-> 10, api_access |-> TRUE, webhooks |-> TRUE,
           priority_support |-> TRUE, white_label |-> TRUE]>>]

\* The JavaScript values null / undefined where an object is expected.
Undefined == [undefined |-> TRUE]
\* An organization object that is null.
NullOrg == [null |-> TRUE]
\* No plan_limits_override (null): no key.
NoOverride == << >>

\* Property names every object inherits from Object.prototype, and the
\* built-in function such a name evaluates to.
ObjectPrototypeKeys == {"constructor", "toString", "valueOf", "hasOwnProperty"}
Inherited(k) == [native |-> k]

\* obj[k] for a string k: the object's own property, else the inherited
\* one, else undefined.
Member(obj, k) ==
    IF k \in DOMAIN obj THEN obj[k]
    ELSE IF k \in ObjectPrototypeKeys THEN Inherited(k)
    ELSE Undefined

\* a || b for object operands: a unless it is null / undefined.
OrElse(a, b) == IF a = Undefined THEN b ELSE a

\* An organization row as the browser holds it.
OrgObject(plan, tier, sub, override) ==
    [plan_type |-> plan, appsumo_tier |-> tier, subscription_tier |-> sub,
     plan_limits_override |-> override]

\* function getPlanLimits(org) (lines 140-154).  PLAN_LIMITS.appsumo has the
\* keys 1, 2, 3 and appsumo_tier is a number or null.
getPlanLimits(org) ==
    IF org = NullOrg THEN PLAN_LIMITS.free
    ELSE IF org.plan_type = "appsumo_lifetime"
    THEN OrElse(IF org.appsumo_tier \in DOMAIN PLAN_LIMITS.appsumo
                THEN PLAN_LIMITS.appsumo[org.appsumo_tier] ELSE Undefined,
                PLAN_LIMITS.appsumo[1])
    ELSE IF org.plan_type = "subscription"
    THEN OrElse(Member(PLAN_LIMITS.subscription, org.subscription_tier),
                PLAN_LIMITS.subscription.growth)
    ELSE PLAN_LIMITS.free

\* The own enumerable keys of an object: a built-in function has none.
OwnKeys(obj) == IF obj = Undefined \/ "native" \in DOMAIN obj THEN {} ELSE DOMAIN obj

\* { ...over, ...base }: a merge in which the base wins.
SpreadBaseWins(base, over) ==
    [k \in OwnKeys(base) \cup OwnKeys(over) |->
        IF k \in OwnKeys(base) THEN base[k] ELSE over[k]]

\* { ...base, ...over }: the own keys of both, the later value winning.
Spread(base, over) ==
    [k \in OwnKeys(base) \cup OwnKeys(over) |->
        IF k \in OwnKeys(over) THEN over[k] ELSE base[k]]

\* function getOrgLimits(org) (lines 126-135).
getOrgLimits(org) ==
    IF org = NullOrg THEN PLAN_LIMITS.free
    ELSE IF org.plan_limits_override # NoOverride
    THEN Spread(getPlanLimits(org), org.plan_limits_override)
    ELSE getPlanLimits(org)

\* Math.round(n / d) for n >= 0, d > 0: the nearest integer, halves up.
Round(n, d) == (2 * n + d) \div (2 * d)

\* A percentage that drops the fraction instead of rounding.
getUsagePercentTruncated(used, limit) ==
    IF limit = -1 THEN 0
    ELSE IF limit = 0 THEN (IF used > 0 THEN 100 ELSE 0)
    ELSE (100 * used) \div limit

\* function getUsagePercent(used, limit) (lines 176-180).
getUsagePercent(used, limit) ==
    IF limit = -1 THEN 0
    ELSE IF limit = 0 THEN (IF used > 0 THEN 100 ELSE 0)
    ELSE Round(100 * used, limit)

\* function getLimitMessage (lines 252-264): which of the three texts.
getLimitMessage(limitType, limit, planType) ==
    IF planType = "appsumo_lifetime" THEN "Stack another AppSumo code or upgrade"
    ELSE IF planType = "subscription" THEN "Upgrade to a higher tier"
    ELSE "Upgrade to unlock more capacity"

\* The object checkLimit returns; a property it does not set is absent
\* (has_current, has_limit), and threw says it ended with a TypeError.
NoDecision ==
    [threw |-> FALSE, allowed |-> FALSE, warning |-> FALSE,
     upgradeRequired |-> FALSE, message |-> "",
     has_current |-> FALSE, current |-> 0, has_limit |-> FALSE, limit |-> 0]

\* usage[limitType] || 0
UsageOf(usg, limitType) ==
    IF limitType \in DOMAIN usg THEN usg[limitType] ELSE 0

\* checkLimit that refuses as soon as the limit is reached.
checkLimitRefusingAtLimit(org, usg, limitType, increment) ==
    LET limits == getOrgLimits(org)
        limit == limits[limitType]
        usedNow == UsageOf(usg, limitType)
        newUsage == usedNow + increment
    IN IF limitType \notin OwnKeys(limits)
       THEN [NoDecision EXCEPT !.allowed = TRUE, !.has_current = TRUE,
                               !.current = newUsage]
       ELSE IF limit = -1 THEN [NoDecision EXCEPT !.allowed = TRUE]
       ELSE IF newUsage >= limit
       THEN IF org = NullOrg THEN [NoDecision EXCEPT !.threw = TRUE]
            ELSE [NoDecision EXCEPT
                     !.message = getLimitMessage(limitType, limit, org.plan_type),
                     !.upgradeRequired = TRUE,
                     !.has_current = TRUE, !.current = usedNow,
                     !.has_limit = TRUE, !.limit = limit]
       ELSE [NoDecision EXCEPT !.allowed = TRUE,
                               !.has_current = TRUE, !.current = newUsage,
                               !.has_limit = TRUE, !.limit = limit]

\* function checkLimit(org, usage, limitType, increment = 1) (lines
\* 196-231); usedNow is its local currentUsage.  A limit that is undefined (limitType is no key of the limits)
\* makes every comparison false: the last return is taken.  With a null org
\* the refusal reads org.plan_type and throws.
checkLimit(org, usg, limitType, increment) ==
    LET limits == getOrgLimits(org)
        limit == limits[limitType]
        usedNow == UsageOf(usg, limitType)
        newUsage == usedNow + increment
        percent == getUsagePercent(newUsage, limit)
    IN IF limitType \notin OwnKeys(limits)
       THEN [NoDecision EXCEPT !.allowed = TRUE, !.has_current = TRUE,
                               !.current = newUsage]
       ELSE IF limit = -1 THEN [NoDecision EXCEPT !.allowed = TRUE]
       ELSE IF newUsage > limit
       THEN IF org = NullOrg THEN [NoDecision EXCEPT !.threw = TRUE]
            ELSE [NoDecision EXCEPT
                     !.message = getLimitMessage(limitType, limit, org.plan_type),
                     !.upgradeRequired = TRUE,
                     !.has_current = TRUE, !.current = usedNow,
                     !.has_limit = TRUE, !.limit = limit]
       ELSE IF percent >= 80 /\ percent < 100
       THEN [NoDecision EXCEPT !.allowed = TRUE, !.warning = TRUE,
                               !.message = "You're at percent% of your limit",
                               !.has_current = TRUE, !.current = newUsage,
                               !.has_limit = TRUE, !.limit = limit]
       ELSE [NoDecision EXCEPT !.allowed = TRUE,
                               !.has_current = TRUE, !.current = newUsage,
                               !.has_limit = TRUE, !.limit = limit]

\* No evaluation of checkLimit yet.
NoQuota ==
    [called |-> FALSE, org |-> NullOrg, usage |-> << >>, limitType |-> "",
     increment |-> 0, base |-> Undefined, limits |-> Undefined,
     decision |-> NoDecision]

\* let currentUsage = null (line 4).
NullUsage == [null |-> TRUE]

\* What a submit handler did: whether it evaluated checkLimit, the decision,
\* and whether it issued the insert.
NoSubmit == [checked |-> FALSE, decision |-> NoDecision, issued |-> FALSE]

Init ==
    /\ usage = {}
    /\ today = 1
    /\ codes = << >>
    /\ orgs = [o \in Orgs |-> IF o = "o1" THEN OrgDefault("free", NULL)
                                          ELSE OrgDefault("subscription", "growth")]
    /\ now = 0
    /\ pc = [p \in Procs |-> "idle"]
    /\ op = [p \in Procs |-> "none"]
    /\ arg = [p \in Procs |-> NoArg]
    /\ loc = [p \in Procs |-> NoLoc]
    /\ result = [p \in Procs |-> NoResult]
    /\ codeLock = [c \in DOMAIN SampleCodes |-> NULL]
    /\ successes = [c \in DOMAIN SampleCodes |-> 0]
    /\ orgWrites = [c \in DOMAIN SampleCodes |-> 0]
    /\ live = [o \in Orgs |-> [t \in DomainTables |-> 0]]
    /\ requested = [o \in Orgs |-> [m \in Months |-> [t \in CounterTypes |-> 0]]]
    /\ quota = NoQuota
    /\ currentOrganization = [t \in Tabs |-> NullOrg]
    /\ currentUsage = [t \in Tabs |-> NullUsage]
    /\ orgLimits = [t \in Tabs |-> Undefined]
    /\ page = [t \in Tabs |-> "init"]
    /\ inflight = [t \in Tabs |-> 0]
    /\ submit = [t \in Tabs |-> NoSubmit]

\* A session can start a call when it is not inside one.
CanCall(p) == pc[p] \in {"idle", "done"}

Min(a, b) == IF a <= b THEN a ELSE b

\* The elements of a sequence.
Elems(seq) == {seq[i] : i \in 1..Len(seq)}

\* ------------------------------------------- 8. sample codes (provisioning)
\* INSERT INTO appsumo_codes ... ON CONFLICT (code) DO NOTHING
InsertCodes ==
    /\ DOMAIN codes # DOMAIN SampleCodes
    /\ codes' = [c \in DOMAIN SampleCodes |->
                    IF c \in DOMAIN codes THEN codes[c] ELSE CodeRow(SampleCodes[c])]
    /\ UNCHANGED <<orgs, now, pc, op, arg, loc, result, codeLock,
                   successes, orgWrites>>
    /\ UNCHANGED usageVars
    /\ UNCHANGED clientVars

\* ------------------------------------------------- 7. redeem_appsumo_code
Max(a, b) == IF a >= b THEN a ELSE b

\* Stacking that keeps the larger tier instead of summing.
NewTierMaximised(current_tier, code_tier) ==
    IF current_tier = NullTier THEN code_tier
    ELSE Min(Max(current_tier, code_tier), 3)

\* Stacking: the code's tier when there is none yet, else the sum, at most 3.
NewTier(current_tier, code_tier) ==
    IF current_tier = NullTier THEN code_tier
    ELSE Min(current_tier + code_tier, 3)

\* The two tests after the lookup (lines 262-270): which way the call goes.
FindOutcomeNoRedeemedTest(table, c) ==
    IF c \notin DOMAIN table THEN "invalid" ELSE "found"

FindOutcome(table, c) ==
    IF c \notin DOMAIN table THEN "invalid"
    ELSE IF table[c].is_redeemed THEN "redeemed"
    ELSE "found"

\* The call starts, and its first statement: find the code, return the two
\* failures (lines 257-270).
RedeemFind(p, o, c) ==
    /\ CanCall(p)
    /\ now < MaxRedeems
    /\ now' = now + 1
    /\ op' = [op EXCEPT ![p] = "redeem"]
    /\ arg' = [arg EXCEPT ![p] = [NoArg EXCEPT !.org_id = o, !.code = c, !.at = now + 1]]
    /\ LET found == FindOutcome(codes, c)
       IN IF found = "invalid"
          THEN /\ result' = [result EXCEPT ![p] = Fail("Invalid code")]
               /\ pc' = [pc EXCEPT ![p] = "done"]
               /\ loc' = [loc EXCEPT ![p] = NoLoc]
          ELSE IF found = "redeemed"
          THEN /\ result' = [result EXCEPT ![p] = Fail("Code already redeemed")]
               /\ pc' = [pc EXCEPT ![p] = "done"]
               /\ loc' = [loc EXCEPT ![p] = NoLoc]
          ELSE /\ result' = [result EXCEPT ![p] = NoResult]
               /\ pc' = [pc EXCEPT ![p] = "getorg"]
               /\ loc' = [loc EXCEPT ![p] = [NoLoc EXCEPT !.tier = codes[c].tier]]
    /\ UNCHANGED <<codes, orgs, codeLock, successes, orgWrites>>
    /\ UNCHANGED usageVars
    /\ UNCHANGED clientVars

\* Read the organization and compute the new tier (lines 272-282).  SELECT
\* INTO leaves both variables NULL when no row has this id.
RedeemGetOrg(p) ==
    /\ pc[p] = "getorg"
    /\ LET o == arg[p].org_id
           found == o \in Orgs
           ct == IF found THEN orgs[o].appsumo_tier ELSE NullTier
           cc == IF found THEN orgs[o].appsumo_codes ELSE <<>>
       IN loc' = [loc EXCEPT ![p].current_tier = ct,
                             ![p].current_codes = cc,
                             ![p].new_tier = NewTier(ct, loc[p].tier)]
    /\ pc' = [pc EXCEPT ![p] = "markcode"]
    /\ UNCHANGED <<codes, orgs, now, op, arg, result, codeLock,
                   successes, orgWrites>>
    /\ UNCHANGED usageVars
    /\ UNCHANGED clientVars

\* UPDATE appsumo_codes ... WHERE id = code_record.id (lines 284-287).  The
\* row is locked until the call ends; redeemed_by_org_id REFERENCES
\* organizations(id), so an id of no organization raises and the call is
\* rolled back (a NULL id passes the constraint).
RedeemMarkCode(p) ==
    /\ pc[p] = "markcode"
    /\ codeLock[arg[p].code] = NULL
    /\ IF arg[p].org_id # NULL /\ arg[p].org_id \notin Orgs
       THEN /\ result' = [result EXCEPT ![p] = Raised("foreign_key_violation")]
            /\ pc' = [pc EXCEPT ![p] = "done"]
            /\ loc' = [loc EXCEPT ![p] = NoLoc]
            /\ UNCHANGED codeLock
       ELSE /\ codeLock' = [codeLock EXCEPT ![arg[p].code] = p]
            /\ pc' = [pc EXCEPT ![p] = "updorg"]
            /\ UNCHANGED <<result, loc>>
    /\ UNCHANGED <<codes, orgs, now, op, arg, successes, orgWrites>>
    /\ UNCHANGED usageVars
    /\ UNCHANGED clientVars

\* The UPDATE without its appsumo_codes assignment.
UpdatedOrgKeepingCodes(row, new_tier, current_codes, code, at) ==
    [row EXCEPT !.plan_type = "appsumo_lifetime",
                !.appsumo_tier = new_tier,
                !.plan_changed_at = at]

\* The organizations row after the UPDATE of lines 289-296.
UpdatedOrg(row, new_tier, current_codes, code, at) ==
    [row EXCEPT !.plan_type = "appsumo_lifetime",
                !.appsumo_tier = new_tier,
                !.appsumo_codes = Append(current_codes, code),
                !.plan_changed_at = at]

\* The appsumo_codes row after the UPDATE of lines 284-287.
RedeemedCode(row, o, at) ==
    [row EXCEPT !.is_redeemed = TRUE,
                !.redeemed_by_org_id = o,
                !.redeemed_at = at]

\* UPDATE organizations ... WHERE id = org_id (lines 289-296), RETURN
\* success (lines 298-302); the call ends, so both updates are committed and
\* the row lock is released.
RedeemUpdateOrg(p) ==
    /\ pc[p] = "updorg"
    /\ LET o == arg[p].org_id
           c == arg[p].code
       IN /\ codes' = [codes EXCEPT ![c] = RedeemedCode(codes[c], o, arg[p].at)]
          /\ orgs' = IF o \in Orgs
                     THEN [orgs EXCEPT ![o] =
                              UpdatedOrg(orgs[o], loc[p].new_tier,
                                         loc[p].current_codes, c, arg[p].at)]
                     ELSE orgs
          /\ orgWrites' = IF o \in Orgs
                          THEN [orgWrites EXCEPT ![c] = @ + 1]
                          ELSE orgWrites
          /\ successes' = [successes EXCEPT ![c] = @ + 1]
          /\ codeLock' = [codeLock EXCEPT ![c] = NULL]
          /\ result' = [result EXCEPT ![p] = Ok(loc[p].new_tier)]
    /\ pc' = [pc EXCEPT ![p] = "done"]
    /\ loc' = [loc EXCEPT ![p] = NoLoc]
    /\ UNCHANGED <<now, op, arg>>
    /\ UNCHANGED usageVars
    /\ UNCHANGED clientVars

\* -------------------------------------------------- 9. check_appsumo_code
\* check_appsumo_code without its is_redeemed test.
CheckResultNoRedeemedTest(table, c) ==
    IF c \notin DOMAIN table THEN Fail("Code not found")
    ELSE Ok(table[c].tier)

\* What check_appsumo_code returns for a table and a code (lines 329-341).
CheckResult(table, c) ==
    IF c \notin DOMAIN table THEN Fail("Code not found")
    ELSE IF table[c].is_redeemed THEN Fail("Code already redeemed")
    ELSE Ok(table[c].tier)

\* The whole function: one SELECT and a RETURN.
CheckCode(p, c) ==
    /\ CanCall(p)
    /\ op' = [op EXCEPT ![p] = "check"]
    /\ arg' = [arg EXCEPT ![p] = [NoArg EXCEPT !.code = c]]
    /\ result' = [result EXCEPT ![p] = CheckResult(codes, c)]
    /\ pc' = [pc EXCEPT ![p] = "done"]
    /\ UNCHANGED <<codes, orgs, now, loc, codeLock, successes, orgWrites>>
    /\ UNCHANGED usageVars
    /\ UNCHANGED clientVars


\* ---------------------------------------------------- 4. get_current_usage
\* DATE_TRUNC('month', CURRENT_DATE)::DATE: the first day of the month.
PeriodStart(date) == [m |-> date.m, d |-> 1]

\* (DATE_TRUNC('month', CURRENT_DATE) + 1 month - 1 day)::DATE: the last day
\* of the month, which is the day before the next month's first day.
PeriodEnd(date) ==
    LET last == {x \in Elems(Calendar) : x.m = date.m}
    IN (CHOOSE x \in last : \A y \in last : y.d <= x.d)

\* The rows WHERE organization_id = org_id AND period_start = start.
UsageRows(table, o, start) ==
    {r \in table : r.organization_id = o /\ r.period_start = start}

\* Time passes: CURRENT_DATE moves to the next day of the calendar.
AdvanceDay ==
    /\ today < Len(Calendar)
    /\ today' = today + 1
    /\ UNCHANGED <<usage, live, requested, now, pc, op, arg, loc, result>>
    /\ UNCHANGED redeemVars
    /\ UNCHANGED clientVars

\* The call starts: the period boundaries, and the SELECT (lines 140-148);
\* RETURN usage_record when the row was found (lines 151, 157).
GetUsageSelect(p, o) ==
    /\ CanCall(p)
    /\ now < MaxUsageCalls
    /\ now' = now + 1
    /\ op' = [op EXCEPT ![p] = "get_current_usage"]
    /\ arg' = [arg EXCEPT ![p] = [NoArg EXCEPT !.org_id = o, !.at = now + 1]]
    /\ LET start == PeriodStart(Calendar[today])
           rows == UsageRows(usage, o, start)
       IN IF rows # {}
          THEN /\ result' = [result EXCEPT ![p] = Record(CHOOSE r \in rows : TRUE)]
               /\ pc' = [pc EXCEPT ![p] = "done"]
               /\ loc' = [loc EXCEPT ![p] = NoLoc]
          ELSE /\ result' = [result EXCEPT ![p] = NoResult]
               /\ pc' = [pc EXCEPT ![p] = "u_insert"]
               /\ loc' = [loc EXCEPT ![p] =
                             [current_period_start |-> start,
                              current_period_end |-> PeriodEnd(Calendar[today])]]
    /\ UNCHANGED <<usage, today, live, requested>>
    /\ UNCHANGED redeemVars
    /\ UNCHANGED clientVars

\* What the constraints of usage_tracking say to a new row (lines 69, 86):
\* organization_id NOT NULL REFERENCES organizations(id), and
\* UNIQUE(organization_id, period_start).
InsertError(table, o, start) ==
    IF o = NULL THEN "not_null_violation"
    ELSE IF o \notin Orgs THEN "foreign_key_violation"
    ELSE IF UsageRows(table, o, start) # {} THEN "unique_violation"
    ELSE ""

\* An INSERT that starts the new period from the organization's latest row.
NewUsageRowCarriedOver(table, o, start, end) ==
    LET prev == {r \in table : r.organization_id = o}
        base == IF prev = {} THEN NoRow
                ELSE CHOOSE r \in prev : \A q \in prev : q.period_start.m <= r.period_start.m
    IN [base EXCEPT !.id = Cardinality(table) + 1,
                    !.organization_id = o,
                    !.period_start = start,
                    !.period_end = end]

\* The row INSERT ... VALUES (org_id, current_period_start,
\* current_period_end) creates (lines 152-153), counters at their DEFAULT 0.
NewUsageRow(table, o, start, end) ==
    [NoRow EXCEPT !.id = Cardinality(table) + 1,
                  !.organization_id = o,
                  !.period_start = start,
                  !.period_end = end]

\* The declared variables of a call that runs get_current_usage inside:
\* the period, the row the nested INSERT wrote (not yet committed) and the
\* three counts of update_usage_snapshots.
UsageLoc(start, end) ==
    [current_period_start |-> start, current_period_end |-> end,
     inserted |-> NoRow, proj_count |-> 0, auto_count |-> 0, cust_count |-> 0]

\* Session p is between the nested get_current_usage and its own UPDATE.
InsideCall(p) ==
    pc[p] \in {"i_update", "s_count", "s_count_auto", "s_count_cust", "s_update"}

\* Another session has inserted a row with this key and not yet committed:
\* an INSERT of the same key waits for that session to end (line 86).
InsertedElsewhere(p, o, start) ==
    \E q \in Procs \ {p} :
        /\ InsideCall(q)
        /\ loc[q].inserted # NoRow
        /\ loc[q].inserted.organization_id = o
        /\ loc[q].inserted.period_start = start

\* IF NOT FOUND THEN INSERT ... RETURNING * INTO usage_record (lines
\* 151-155), RETURN usage_record (line 157).  The function has no EXCEPTION
\* block and the INSERT no ON CONFLICT clause: a constraint violation ends
\* the call with the raised error.
GetUsageInsert(p) ==
    /\ pc[p] = "u_insert"
    /\ ~InsertedElsewhere(p, arg[p].org_id, loc[p].current_period_start)
    /\ LET o == arg[p].org_id
           start == loc[p].current_period_start
           err == InsertError(usage, o, start)
           row == NewUsageRow(usage, o, start, loc[p].current_period_end)
       IN IF err # ""
          THEN /\ result' = [result EXCEPT ![p] = Raised(err)]
               /\ UNCHANGED usage
          ELSE /\ usage' = usage \cup {row}
               /\ result' = [result EXCEPT ![p] = Record(row)]
    /\ pc' = [pc EXCEPT ![p] = "done"]
    /\ loc' = [loc EXCEPT ![p] = NoLoc]
    /\ UNCHANGED <<today, live, requested, now, op, arg>>
    /\ UNCHANGED redeemVars
    /\ UNCHANGED clientVars

\* ------------------------------------------------------ 5. increment_usage
\* RETURN TRUE
True == [NoResult EXCEPT !.ok = TRUE]

\* The first statements of a call that starts with PERFORM
\* get_current_usage(org_id): the period (lines 174 / 210, 141-142) and the
\* SELECT of lines 145-148.  The nested INSERT follows when no row was found.
EnsureSelect(p, f, a) ==
    /\ CanCall(p)
    /\ now < MaxUsageCalls
    /\ now' = now + 1
    /\ op' = [op EXCEPT ![p] = f]
    /\ arg' = [arg EXCEPT ![p] = [a EXCEPT !.at = now + 1]]
    /\ result' = [result EXCEPT ![p] = NoResult]
    /\ LET start == PeriodStart(Calendar[today])
       IN /\ loc' = [loc EXCEPT ![p] = UsageLoc(start, PeriodEnd(Calendar[today]))]
          /\ pc' = [pc EXCEPT ![p] =
                       IF UsageRows(usage, a.org_id, start) = {} THEN "e_insert"
                       ELSE IF f = "increment_usage" THEN "i_update"
                       ELSE "s_count"]

\* increment_usage(org_id, usage_type, amount) is called.
IncStart(p, o, t, n) ==
    /\ now < MaxIncrements
    /\ EnsureSelect(p, "increment_usage",
                    [NoArg EXCEPT !.org_id = o, !.usage_type = t, !.amount = n])
    /\ requested' = IF o \in Orgs /\ t \in CounterTypes
                    THEN [requested EXCEPT ![o][Calendar[today].m][t] = @ + n]
                    ELSE requested
    /\ UNCHANGED <<usage, today, live>>
    /\ UNCHANGED redeemVars
    /\ UNCHANGED clientVars

\* The INSERT of the nested get_current_usage (lines 151-155): the error
\* it raises ends the calling function too; the row it writes stays
\* invisible to the other sessions until the call returns.
EnsureInsert(p) ==
    /\ pc[p] = "e_insert"
    /\ ~InsertedElsewhere(p, arg[p].org_id, loc[p].current_period_start)
    /\ LET o == arg[p].org_id
           start == loc[p].current_period_start
           err == InsertError(usage, o, start)
       IN IF err # ""
          THEN /\ result' = [result EXCEPT ![p] = Raised(err)]
               /\ pc' = [pc EXCEPT ![p] = "done"]
               /\ loc' = [loc EXCEPT ![p] = NoLoc]
          ELSE /\ loc' = [loc EXCEPT ![p].inserted =
                             NewUsageRow(usage, o, start, loc[p].current_period_end)]
               /\ pc' = [pc EXCEPT ![p] = IF op[p] = "increment_usage"
                                          THEN "i_update" ELSE "s_count"]
               /\ UNCHANGED result
    /\ UNCHANGED <<usage, today, live, requested, now, op, arg>>
    /\ UNCHANGED redeemVars
    /\ UNCHANGED clientVars

\* The row the UPDATE ... WHERE organization_id = org_id AND period_start =
\* current_period_start of session p finds: the one its own call inserted,
\* else the newest committed one.
TargetRow(p) ==
    IF loc[p].inserted # NoRow THEN loc[p].inserted
    ELSE CHOOSE r \in UsageRows(usage, arg[p].org_id, loc[p].current_period_start) : TRUE

\* The table after the call of session p commits with its row as `row`.
Committed(p, row) ==
    IF loc[p].inserted # NoRow
    THEN usage \cup {[row EXCEPT !.id = Cardinality(usage) + 1]}
    ELSE (usage \ {TargetRow(p)}) \cup {row}

\* The row after the IF / ELSIF chain of lines 180-192: one counter grows
\* by amount, and no branch matches any other usage_type.
Incremented(row, t, n) ==
    IF t = "emails" THEN [row EXCEPT !.emails_sent = @ + n]
    ELSE IF t = "sms" THEN [row EXCEPT !.sms_sent = @ + n]
    ELSE IF t = "ai_analyses" THEN [row EXCEPT !.ai_analyses_used = @ + n]
    ELSE row

\* The UPDATE of lines 180-192 and RETURN TRUE (line 194); the call ends
\* and its writes are committed.
IncUpdate(p) ==
    /\ pc[p] = "i_update"
    /\ usage' = Committed(p, Incremented(TargetRow(p), arg[p].usage_type, arg[p].amount))
    /\ result' = [result EXCEPT ![p] = True]
    /\ pc' = [pc EXCEPT ![p] = "done"]
    /\ loc' = [loc EXCEPT ![p] = NoLoc]
    /\ UNCHANGED <<today, live, requested, now, op, arg>>
    /\ UNCHANGED redeemVars
    /\ UNCHANGED clientVars

\* ----------------------------------------------- 6. update_usage_snapshots
\* A row is inserted into projects, automations (for one of the
\* organization's projects) or customers by the application.
DomainInsert(o, t) ==
    /\ live[o]["projects"] + live[o]["automations"] + live[o]["customers"] < MaxDomainRows
    /\ live' = [live EXCEPT ![o][t] = @ + 1]
    /\ UNCHANGED <<usage, today, requested, now, pc, op, arg, loc, result>>
    /\ UNCHANGED redeemVars
    /\ UNCHANGED clientVars

\* SELECT COUNT(*) ... WHERE organization_id = org_id: the rows of the
\* organization in table t, none for an id of no organization.
CountOf(o, t) == IF o \in Orgs THEN live[o][t] ELSE 0

\* update_usage_snapshots(org_id) is called.
SnapStart(p, o) ==
    /\ EnsureSelect(p, "update_usage_snapshots", [NoArg EXCEPT !.org_id = o])
    /\ UNCHANGED <<usage, today, live, requested>>
    /\ UNCHANGED redeemVars
    /\ UNCHANGED clientVars

\* SELECT COUNT(*) INTO proj_count (lines 216-217).
SnapCountProjects(p) ==
    /\ pc[p] = "s_count"
    /\ loc' = [loc EXCEPT ![p].proj_count = CountOf(arg[p].org_id, "projects")]
    /\ pc' = [pc EXCEPT ![p] = "s_count_auto"]
    /\ UNCHANGED <<usage, today, live, requested, now, op, arg, result>>
    /\ UNCHANGED redeemVars
    /\ UNCHANGED clientVars

\* SELECT COUNT(*) INTO auto_count (lines 220-223).
SnapCountAutomations(p) ==
    /\ pc[p] = "s_count_auto"
    /\ loc' = [loc EXCEPT ![p].auto_count = CountOf(arg[p].org_id, "automations")]
    /\ pc' = [pc EXCEPT ![p] = "s_count_cust"]
    /\ UNCHANGED <<usage, today, live, requested, now, op, arg, result>>
    /\ UNCHANGED redeemVars
    /\ UNCHANGED clientVars

\* SELECT COUNT(*) INTO cust_count (lines 226-227).
SnapCountCustomers(p) ==
    /\ pc[p] = "s_count_cust"
    /\ loc' = [loc EXCEPT ![p].cust_count = CountOf(arg[p].org_id, "customers")]
    /\ pc' = [pc EXCEPT ![p] = "s_update"]
    /\ UNCHANGED <<usage, today, live, requested, now, op, arg, result>>
    /\ UNCHANGED redeemVars
    /\ UNCHANGED clientVars

\* A snapshot UPDATE that adds the counts to the stored ones.
SnapshottedAccumulating(row, proj_count, auto_count, cust_count) ==
    [row EXCEPT !.projects_count = @ + proj_count,
                !.automations_count = @ + auto_count,
                !.customers_count = @ + cust_count]

\* The row after the UPDATE of lines 230-236.
Snapshotted(row, proj_count, auto_count, cust_count) ==
    [row EXCEPT !.projects_count = proj_count,
                !.automations_count = auto_count,
                !.customers_count = cust_count]

\* The UPDATE of lines 230-236 and RETURN TRUE (line 238); the call ends
\* and its writes are committed.
SnapUpdate(p) ==
    /\ pc[p] = "s_update"
    /\ usage' = Committed(p, Snapshotted(TargetRow(p), loc[p].proj_count,
                                         loc[p].auto_count, loc[p].cust_count))
    /\ result' = [result EXCEPT ![p] = True]
    /\ pc' = [pc EXCEPT ![p] = "done"]
    /\ loc' = [loc EXCEPT ![p] = NoLoc]
    /\ UNCHANGED <<today, live, requested, now, op, arg>>
    /\ UNCHANGED redeemVars
    /\ UNCHANGED clientVars

\* ------------------------------------------------------------ checkLimit
\* The organization objects a caller holds: null, or a row on one of the
\* plans (or on none, or on one the switch does not know) with a tier that
\* is set, null, out of range, unknown, or the name of an inherited property.
PlanOrgs ==
    {OrgObject(plan, NullTier, NULL, NoOverride) : plan \in {"free", "trial", NULL}}
      \cup {OrgObject("appsumo_lifetime", t, NULL, NoOverride) : t \in {NullTier, 1, 2, 3, 4}}
      \cup {OrgObject("subscription", NullTier, t, NoOverride) :
                t \in {"growth", "business", "enterprise", NULL, "platinum", "constructor"}}

\* Values of organizations.plan_limits_override.
Overrides ==
    {NoOverride, [projects |-> 2], [projects |-> -1, customers |-> 0],
     [customers |-> 200, seats |-> 4]}

OrgObjects ==
    {NullOrg} \cup {[o EXCEPT !.plan_limits_override = v] : o \in PlanOrgs, v \in Overrides}

\* Usage values worth trying against a limit: none, around the limit and
\* around the two thresholds of the warning.
UsedValues(limit) ==
    IF limit <= 0 THEN {0, 1, 1000}
    ELSE {u \in 0..(limit + 1) :
            \/ u <= 1
            \/ u >= limit - 2
            \/ (159 * limit - 200 * u <= 400 /\ 200 * u - 159 * limit <= 400)
            \/ (199 * limit - 200 * u <= 400 /\ 200 * u - 199 * limit <= 400)}

Increments == {1, 2}

\* A caller evaluates checkLimit(org, usage, limitType, increment), with
\* usage an object that has the key or lacks it.  The function keeps no
\* state, so one evaluation per behaviour shows all it can do.
CallCheckLimit(org, limitType, increment) ==
    LET limits == getOrgLimits(org)
        limit == IF limitType \in OwnKeys(limits) THEN limits[limitType] ELSE 0
    IN \E u \in {<< >>} \cup {[k \in {limitType} |-> n] : n \in UsedValues(limit)} :
          /\ ~quota.called
          /\ quota' = [called |-> TRUE, org |-> org, usage |-> u,
                       limitType |-> limitType, increment |-> increment,
                       base |-> getPlanLimits(org), limits |-> limits,
                       decision |-> checkLimit(org, u, limitType, increment)]
          /\ UNCHANGED <<now, pc, op, arg, loc, result>>
          /\ UNCHANGED redeemVars
          /\ UNCHANGED usageVars
          /\ UNCHANGED dashVars

\* ------------------------------------------------------------- dashboard
\* How an awaited request ends: with data, with { error } in the response,
\* or with an exception.
Outcomes == {"ok", "error", "throw"}

\* The organizations row as the select of lines 46-50 returns it.
SelectOrg(o) ==
    OrgObject(orgs[o].plan_type, orgs[o].appsumo_tier, orgs[o].subscription_tier,
              NoOverride)

\* loadOrganization (lines 29-63): the two selects succeed and set
\* currentOrganization and orgLimits, or one fails and both stay null.
LoadOrganization(t, outcome) ==
    /\ page[t] = "init"
    /\ outcome \in {"ok", "error"}
    /\ IF outcome = "ok"
       THEN /\ currentOrganization' = [currentOrganization EXCEPT ![t] = SelectOrg(DashOrg)]
            /\ orgLimits' = [orgLimits EXCEPT ![t] = getOrgLimits(SelectOrg(DashOrg))]
       ELSE UNCHANGED <<currentOrganization, orgLimits>>
    /\ page' = [page EXCEPT ![t] = "org"]
    /\ UNCHANGED <<currentUsage, inflight, submit, quota>>
    /\ UNCHANGED sessionVars
    /\ UNCHANGED redeemVars
    /\ UNCHANGED usageVars

\* The row get_current_usage returns when it runs alone: the one of the
\* current month, created when missing.
CurrentUsageRow(table, o) ==
    LET start == PeriodStart(Calendar[today])
        rows == UsageRows(table, o, start)
    IN IF rows # {} THEN CHOOSE r \in rows : TRUE
       ELSE NewUsageRow(table, o, start, PeriodEnd(Calendar[today]))

\* loadUsageData up to its first await (lines 66-82): return without an
\* organization; else rpc('get_current_usage'), whose error or exception
\* leads to calculateUsageManually.
LoadUsageData(t, outcome) ==
    /\ page[t] = "org"
    /\ IF currentOrganization[t] = NullOrg
       THEN /\ outcome = "ok"
            /\ page' = [page EXCEPT ![t] = "ready"]
            /\ UNCHANGED <<currentUsage, usage>>
       ELSE IF outcome = "ok"
       THEN /\ usage' = usage \cup {CurrentUsageRow(usage, DashOrg)}
            /\ currentUsage' = [currentUsage EXCEPT ![t] = CurrentUsageRow(usage, DashOrg)]
            /\ page' = [page EXCEPT ![t] = "snapshots"]
       ELSE /\ page' = [page EXCEPT ![t] = "manual"]
            /\ UNCHANGED <<currentUsage, usage>>
    /\ UNCHANGED <<currentOrganization, orgLimits, inflight, submit, quota>>
    /\ UNCHANGED <<today, live, requested>>
    /\ UNCHANGED sessionVars
    /\ UNCHANGED redeemVars

\* await rpc('update_usage_snapshots') (line 85): its result is not looked
\* at; an exception leads to calculateUsageManually.
LoadUsageSnapshots(t, outcome) ==
    /\ page[t] = "snapshots"
    /\ LET row == CurrentUsageRow(usage, DashOrg)
       IN IF outcome = "ok"
          THEN usage' = (usage \ {row}) \cup
                          {Snapshotted(row, live[DashOrg]["projects"],
                                       live[DashOrg]["automations"],
                                       live[DashOrg]["customers"])}
          ELSE UNCHANGED usage
    /\ page' = [page EXCEPT ![t] = IF outcome = "throw" THEN "manual" ELSE "refetch"]
    /\ UNCHANGED dashVarsButPage
    /\ UNCHANGED <<today, live, requested, quota>>
    /\ UNCHANGED sessionVars
    /\ UNCHANGED redeemVars

\* The second rpc('get_current_usage') (lines 88-94): its data replaces
\* currentUsage when there is some.
LoadUsageRefetch(t, outcome) ==
    /\ page[t] = "refetch"
    /\ IF outcome = "ok"
       THEN /\ usage' = usage \cup {CurrentUsageRow(usage, DashOrg)}
            /\ currentUsage' = [currentUsage EXCEPT ![t] = CurrentUsageRow(usage, DashOrg)]
       ELSE UNCHANGED <<usage, currentUsage>>
    /\ page' = [page EXCEPT ![t] = IF outcome = "throw" THEN "manual" ELSE "ready"]
    /\ UNCHANGED <<currentOrganization, orgLimits, inflight, submit, quota>>
    /\ UNCHANGED <<today, live, requested>>
    /\ UNCHANGED sessionVars
    /\ UNCHANGED redeemVars

\* The object calculateUsageManually builds (lines 135-142).
ManualUsage(projectsCount, automationsCount, customersCount) ==
    [projects_count |-> projectsCount, automations_count |-> automationsCount,
     customers_count |-> customersCount,
     emails_sent |-> 0, sms_sent |-> 0, ai_analyses_used |-> 0]

\* calculateUsageManually (lines 103-148): the counts of the three tables;
\* a count query answered with an error gives count null, which || 0 turns
\* into 0; an exception is logged and leaves currentUsage as it is.
CalculateUsageManually(t, outcome) ==
    /\ page[t] = "manual"
    /\ currentUsage' =
          IF outcome = "ok"
          THEN [currentUsage EXCEPT ![t] =
                   ManualUsage(live[DashOrg]["projects"], live[DashOrg]["automations"],
                               live[DashOrg]["customers"])]
          ELSE IF outcome = "error"
          THEN [currentUsage EXCEPT ![t] = ManualUsage(0, 0, 0)]
          ELSE currentUsage
    /\ page' = [page EXCEPT ![t] = "ready"]
    /\ UNCHANGED <<currentOrganization, orgLimits, inflight, submit, quota>>
    /\ UNCHANGED sessionVars
    /\ UNCHANGED redeemVars
    /\ UNCHANGED usageVars

\* Project inserts issued and not yet answered.
InFlight == inflight["t1"] + inflight["t2"]

\* handleCreateProject with a check that counts the inserts still pending.
HandleCreateProjectCountingPending(t) ==
    /\ page[t] \in {"ready", "created"}
    /\ LET checks == orgLimits[t] # Undefined /\ currentUsage[t] # NullUsage
           limitCheck == IF checks
                         THEN checkLimit(currentOrganization[t],
                                         [projects |-> currentUsage[t].projects_count
                                                         + InFlight],
                                         "projects", 1)
                         ELSE NoDecision
       IN IF checks /\ ~limitCheck.allowed
          THEN /\ submit' = [submit EXCEPT ![t] =
                                [checked |-> TRUE, decision |-> limitCheck, issued |-> FALSE]]
               /\ UNCHANGED inflight
          ELSE IF currentOrganization[t] = NullOrg
          THEN /\ submit' = [submit EXCEPT ![t] =
                                [checked |-> checks, decision |-> limitCheck, issued |-> FALSE]]
               /\ UNCHANGED inflight
          ELSE /\ live[DashOrg]["projects"] + InFlight < MaxInserts
               /\ submit' = [submit EXCEPT ![t] =
                                [checked |-> checks, decision |-> limitCheck, issued |-> TRUE]]
               /\ inflight' = [inflight EXCEPT ![t] = @ + 1]
    /\ UNCHANGED <<currentOrganization, currentUsage, orgLimits, page, quota>>
    /\ UNCHANGED sessionVars
    /\ UNCHANGED redeemVars
    /\ UNCHANGED usageVars

\* handleCreateProject up to its await (lines 469-508): the limit check,
\* made only when orgLimits and currentUsage are set; showUpgradeModal and
\* return when it refuses; else the insert is sent.  Without an
\* organization, currentOrganization.id throws inside the try.
HandleCreateProject(t) ==
    /\ page[t] \in {"ready", "created"}
    /\ LET checks == orgLimits[t] # Undefined /\ currentUsage[t] # NullUsage
           limitCheck == IF checks
                         THEN checkLimit(currentOrganization[t],
                                         [projects |-> currentUsage[t].projects_count],
                                         "projects", 1)
                         ELSE NoDecision
       IN IF checks /\ ~limitCheck.allowed
          THEN /\ submit' = [submit EXCEPT ![t] =
                                [checked |-> TRUE, decision |-> limitCheck, issued |-> FALSE]]
               /\ UNCHANGED inflight
          ELSE IF currentOrganization[t] = NullOrg
          THEN /\ submit' = [submit EXCEPT ![t] =
                                [checked |-> checks, decision |-> limitCheck, issued |-> FALSE]]
               /\ UNCHANGED inflight
          ELSE /\ live[DashOrg]["projects"] + InFlight < MaxInserts
               /\ submit' = [submit EXCEPT ![t] =
                                [checked |-> checks, decision |-> limitCheck, issued |-> TRUE]]
               /\ inflight' = [inflight EXCEPT ![t] = @ + 1]
    /\ UNCHANGED <<currentOrganization, currentUsage, orgLimits, page, quota>>
    /\ UNCHANGED sessionVars
    /\ UNCHANGED redeemVars
    /\ UNCHANGED usageVars

\* An answer that counts the project locally whether the insert succeeded
\* or not.
InsertResolvesCountingFailures(t, outcome) ==
    /\ inflight[t] > 0
    /\ inflight' = [inflight EXCEPT ![t] = @ - 1]
    /\ currentUsage' =
          IF currentUsage[t] # NullUsage
          THEN [currentUsage EXCEPT ![t].projects_count = @ + 1]
          ELSE currentUsage
    /\ IF outcome = "ok"
       THEN /\ live' = [live EXCEPT ![DashOrg]["projects"] = @ + 1]
            /\ page' = [page EXCEPT ![t] = "created"]
       ELSE UNCHANGED <<live, page>>
    /\ UNCHANGED <<currentOrganization, orgLimits, submit, quota>>
    /\ UNCHANGED <<usage, today, requested>>
    /\ UNCHANGED sessionVars
    /\ UNCHANGED redeemVars

\* The insert is answered (lines 508-533): the row is in projects and the
\* local projects_count grows by one when there is a currentUsage, or the
\* error is shown and nothing changes.
InsertResolves(t, outcome) ==
    /\ inflight[t] > 0
    /\ inflight' = [inflight EXCEPT ![t] = @ - 1]
    /\ IF outcome = "ok"
       THEN /\ live' = [live EXCEPT ![DashOrg]["projects"] = @ + 1]
            /\ currentUsage' =
                  IF currentUsage[t] # NullUsage
                  THEN [currentUsage EXCEPT ![t].projects_count = @ + 1]
                  ELSE currentUsage
            /\ page' = [page EXCEPT ![t] = "created"]
       ELSE UNCHANGED <<live, currentUsage, page>>
    /\ UNCHANGED <<currentOrganization, orgLimits, submit, quota>>
    /\ UNCHANGED <<usage, today, requested>>
    /\ UNCHANGED sessionVars
    /\ UNCHANGED redeemVars

\* window.location.href = ... (lines 524-526): the tab leaves the
\* dashboard; when it is opened again the script starts from its globals'
\* initial values.
Redirect(t) ==
    /\ page[t] = "created"
    /\ inflight[t] = 0
    /\ currentOrganization' = [currentOrganization EXCEPT ![t] = NullOrg]
    /\ currentUsage' = [currentUsage EXCEPT ![t] = NullUsage]
    /\ orgLimits' = [orgLimits EXCEPT ![t] = Undefined]
    /\ page' = [page EXCEPT ![t] = "init"]
    /\ UNCHANGED <<inflight, submit, quota>>
    /\ UNCHANGED sessionVars
    /\ UNCHANGED redeemVars
    /\ UNCHANGED usageVars

Next ==
    \/ InsertCodes
    \/ \E p \in Procs, o \in OrgArgs, c \in CodeArgs : RedeemFind(p, o, c)
    \/ \E p \in Procs : RedeemGetOrg(p)
    \/ \E p \in Procs : RedeemMarkCode(p)
    \/ \E p \in Procs : RedeemUpdateOrg(p)
    \/ \E p \in Procs, c \in CodeArgs : CheckCode(p, c)

Spec == Init /\ [][Next]_vars

\* Redemptions only, for the organizations that exist.
NextStacking ==
    \/ InsertCodes
    \/ \E p \in Procs, o \in Orgs, c \in DOMAIN SampleCodes : RedeemFind(p, o, c)
    \/ \E p \in Procs : RedeemGetOrg(p)
    \/ \E p \in Procs : RedeemMarkCode(p)
    \/ \E p \in Procs : RedeemUpdateOrg(p)

SpecStacking == Init /\ [][NextStacking]_vars

\* The usage_tracking functions, called by concurrent sessions.
NextUsage ==
    \/ AdvanceDay
    \/ \E p \in Procs, o \in OrgArgs : GetUsageSelect(p, o)
    \/ \E p \in Procs : GetUsageInsert(p)

SpecUsage == Init /\ [][NextUsage]_vars

\* increment_usage, called by concurrent sessions next to get_current_usage
\* calls for the existing organizations.
NextIncrement ==
    \/ AdvanceDay
    \/ \E p \in Procs, o \in Orgs : GetUsageSelect(p, o)
    \/ \E p \in Procs : GetUsageInsert(p)
    \/ \E p \in Procs, o \in OrgArgs, t \in UsageTypes, n \in Amounts : IncStart(p, o, t, n)
    \/ \E p \in Procs : EnsureInsert(p)
    \/ \E p \in Procs : IncUpdate(p)

SpecIncrement == Init /\ [][NextIncrement]_vars

\* update_usage_snapshots, called by concurrent sessions for an existing or
\* a missing organization, while emails are counted for organization o1 and
\* the application inserts domain rows for it.
NextSnapshots ==
    \/ \E t \in DomainTables : DomainInsert("o1", t)
    \/ \E p \in Procs, n \in Amounts : IncStart(p, "o1", "emails", n)
    \/ \E p \in Procs : EnsureInsert(p)
    \/ \E p \in Procs : IncUpdate(p)
    \/ \E p \in Procs, o \in Orgs \cup {GhostOrg} : SnapStart(p, o)
    \/ \E p \in Procs : SnapCountProjects(p)
    \/ \E p \in Procs : SnapCountAutomations(p)
    \/ \E p \in Procs : SnapCountCustomers(p)
    \/ \E p \in Procs : SnapUpdate(p)

SpecSnapshots == Init /\ [][NextSnapshots]_vars

\* checkLimit, evaluated on arguments of the caller's choice.
NextLimits ==
    \E org \in OrgObjects, k \in LimitKeys, n \in Increments : CallCheckLimit(org, k, n)

SpecLimits == Init /\ [][NextLimits]_vars

\* Two dashboard tabs of one organization.
NextDashboard ==
    \/ \E t \in Tabs, x \in Outcomes : LoadOrganization(t, x)
    \/ \E t \in Tabs, x \in Outcomes : LoadUsageData(t, x)
    \/ \E t \in Tabs, x \in Outcomes : LoadUsageSnapshots(t, x)
    \/ \E t \in Tabs, x \in Outcomes : LoadUsageRefetch(t, x)
    \/ \E t \in Tabs, x \in Outcomes : CalculateUsageManually(t, x)
    \/ \E t \in Tabs : HandleCreateProject(t)
    \/ \E t \in Tabs, x \in Outcomes : InsertResolves(t, x)
    \/ \E t \in Tabs : Redirect(t)

SpecDashboard == Init /\ [][NextDashboard]_vars

\* The tab of one dashboard session.
SessionTab == "t1"

\* One dashboard session of an organization whose rows were inserted
\* before the page was opened: no other writer while it runs, no reload,
\* and every submit handled after the insert of the one before was answered.
NextSession ==
    \/ \E d \in DomainTables : page[SessionTab] = "init" /\ DomainInsert(DashOrg, d)
    \/ \E x \in Outcomes : LoadOrganization(SessionTab, x)
    \/ \E x \in Outcomes : LoadUsageData(SessionTab, x)
    \/ \E x \in Outcomes : LoadUsageSnapshots(SessionTab, x)
    \/ \E x \in Outcomes : LoadUsageRefetch(SessionTab, x)
    \/ \E x \in Outcomes : CalculateUsageManually(SessionTab, x)
    \/ inflight[SessionTab] = 0 /\ HandleCreateProject(SessionTab)
    \/ \E x \in Outcomes : InsertResolves(SessionTab, x)

SpecSession == Init /\ [][NextSession]_vars

\* ================================================================ claims
IsPrefix(a, b) == Len(a) <= Len(b) /\ SubSeq(b, 1, Len(a)) = a

\* Session p took this step.
Stepped(p) ==
    <<pc[p], op[p], arg[p], loc[p], result[p]>> #
        <<pc'[p], op'[p], arg'[p], loc'[p], result'[p]>>

\* Session p is not inside a call and holds the result of a call of f.
Finished(p, f) == pc[p] = "done" /\ op[p] = f

\* C1: of the redemptions of one code, concurrent or not, exactly one
\* returns success and exactly one organization update is applied; every
\* other one returns AlreadyRedeemed.
C1_ExactlyOneSuccess ==
    \A c \in DOMAIN SampleCodes : successes[c] <= 1 /\ orgWrites[c] <= 1

\* C2: redemption is all-or-nothing: a code is redeemed by O exactly when
\* organization O exists, is on the lifetime plan and lists the code.
C2_AllOrNothing ==
    \A c \in DOMAIN codes :
        /\ codes[c].is_redeemed =>
              /\ codes[c].redeemed_by_org_id \in Orgs
              /\ orgs[codes[c].redeemed_by_org_id].plan_type = "appsumo_lifetime"
              /\ c \in Elems(orgs[codes[c].redeemed_by_org_id].appsumo_codes)
        /\ \A o \in Orgs :
              c \in Elems(orgs[o].appsumo_codes) =>
                  codes[c].is_redeemed /\ codes[c].redeemed_by_org_id = o

\* C3: a successful redeem of a code of tier t by an organization whose
\* current tier it read as c stores and returns t when c is null and
\* min(c + t, 3) otherwise; the returned tier is the stored tier.
C3_StackedTier ==
    [][\A p \in Procs :
          (pc[p] = "updorg" /\ pc'[p] = "done" /\ arg[p].org_id \in Orgs) =>
              LET c == loc[p].current_tier
                  t == SampleCodes[arg[p].code]
                  expected == IF c = NullTier THEN t
                              ELSE IF c + t <= 3 THEN c + t ELSE 3
              IN /\ result'[p].ok
                 /\ result'[p].tier = expected
                 /\ orgs'[arg[p].org_id].appsumo_tier = expected
                 /\ orgs'[arg[p].org_id].appsumo_tier = result'[p].tier]_vars

\* C3 witness: tier 2 + a tier-2 code gave 3, stored and returned.
C3_Witness ==
    \E p \in Procs :
        /\ Finished(p, "redeem") /\ result[p].ok /\ result[p].tier = 3
        /\ arg[p].org_id = "o1"
        /\ orgs["o1"].appsumo_codes = <<"T2-001", "T2-002">>
        /\ orgs["o1"].appsumo_tier = 3

\* C4: a redeem that fails changes no code and no organization; an unknown
\* code fails with InvalidCode, a redeemed one with AlreadyRedeemed.
C4_FailureChangesNothing ==
    [][\A p \in Procs :
          (Stepped(p) /\ op'[p] = "redeem") =>
              /\ (pc[p] \in {"idle", "done"} /\ arg'[p].code \notin DOMAIN codes)
                    => pc'[p] = "done" /\ result'[p] = Fail("Invalid code")
              /\ (pc[p] \in {"idle", "done"} /\ arg'[p].code \in DOMAIN codes
                    /\ codes[arg'[p].code].is_redeemed)
                    => pc'[p] = "done" /\ result'[p] = Fail("Code already redeemed")
              /\ (pc'[p] = "done" /\ ~result'[p].ok)
                    => codes' = codes /\ orgs' = orgs]_vars

\* C4 witness: the second redemption of a code, by another organization,
\* was rejected.
C4_Witness ==
    \E p \in Procs :
        /\ Finished(p, "redeem")
        /\ result[p] = Fail("Code already redeemed")
        /\ codes[arg[p].code].is_redeemed
        /\ codes[arg[p].code].redeemed_by_org_id \in Orgs \ {arg[p].org_id}
        /\ arg[p].org_id \in Orgs

\* C5: appsumo_tier never decreases (null is below every tier).
C5_TierNeverDecreases ==
    [][\A o \in Orgs : orgs'[o].appsumo_tier >= orgs[o].appsumo_tier]_vars

\* C6: subscription_tier is non-null only on plan subscription, and
\* appsumo_tier only on plan appsumo_lifetime.
C6_TierMatchesPlan ==
    \A o \in Orgs :
        /\ orgs[o].subscription_tier # NULL => orgs[o].plan_type = "subscription"
        /\ orgs[o].appsumo_tier # NullTier => orgs[o].plan_type = "appsumo_lifetime"

\* C7: appsumo_codes is append-only: every new value extends the previous
\* one.
C7_CodesAppendOnly ==
    [][\A o \in Orgs : IsPrefix(orgs[o].appsumo_codes, orgs'[o].appsumo_codes)]_vars

\* C8: checkCode changes no code, no organization and no running call, and
\* returns valid with the code's tier exactly when the code exists and is
\* unredeemed.
C8_CheckCodeReadOnly ==
    [][\A p \in Procs :
          (Stepped(p) /\ op'[p] = "check") =>
              /\ UNCHANGED <<codes, orgs, now, codeLock>>
              /\ \A q \in Procs \ {p} : ~Stepped(q)
              /\ result'[p].ok <=>
                    (arg'[p].code \in DOMAIN codes /\ ~codes[arg'[p].code].is_redeemed)
              /\ result'[p].ok => result'[p].tier = SampleCodes[arg'[p].code]]_vars

\* C8 witness: a check of a redeemed code answered invalid while another
\* session is in the middle of a redemption.
C8_Witness ==
    \E p, q \in Procs :
        /\ Finished(p, "check")
        /\ arg[p].code \in DOMAIN codes
        /\ codes[arg[p].code].is_redeemed
        /\ ~result[p].ok
        /\ pc[q] = "markcode"

\* C9: checkCode gives the same answer for a code that does not exist and
\* for the same code when it exists but is redeemed.
C9_NoExistenceLeak ==
    \A p, q \in Procs :
        (/\ Finished(p, "check") /\ Finished(q, "check")
         /\ arg[p].code = arg[q].code
         /\ ~result[p].ok /\ ~result[q].ok)
            => result[p] = result[q]

\* C10: when two getCurrentPeriod calls race on the first access of a month,
\* one row exists for (org, period_start) afterwards and both calls return
\* it: neither ends with a uniqueness violation.
C10_BothCallersGetTheRow ==
    /\ \A r1, r2 \in usage :
          (r1.organization_id = r2.organization_id
              /\ r1.period_start = r2.period_start) => r1 = r2
    /\ \A p \in Procs :
          (Finished(p, "get_current_usage") /\ arg[p].org_id \in Orgs) =>
              /\ ~result[p].raised
              /\ result[p].row \in usage
              /\ result[p].row.organization_id = arg[p].org_id

\* The value of a cumulative counter of (organization, month): that of its
\* row, 0 when it has none.
Counter(o, m, t) ==
    LET rows == {r \in usage : r.organization_id = o /\ r.period_start.m = m}
        row == IF rows = {} THEN NoRow ELSE CHOOSE r \in rows : TRUE
    IN CASE t = "emails" -> row.emails_sent
         [] t = "sms" -> row.sms_sent
         [] t = "ai_analyses" -> row.ai_analyses_used

\* C11: no increment is lost: once the increment_usage calls have ended,
\* every cumulative counter of every organization and period equals the sum
\* of the amounts of the calls that named it.
C11_NoIncrementLost ==
    (\A p \in Procs : op[p] = "increment_usage" => pc[p] = "done") =>
        \A o \in Orgs, m \in Months, t \in CounterTypes :
            Counter(o, m, t) = requested[o][m][t]

\* The rows of a table other than those of (organization, period).
OtherRows(table, o, start) == table \ UsageRows(table, o, start)

\* Row b is row a except, at most, for the id and the counter of type t.
SameButCounter(a, b, t) ==
    /\ b.organization_id = a.organization_id
    /\ b.period_start = a.period_start
    /\ b.period_end = a.period_end
    /\ t # "emails" => b.emails_sent = a.emails_sent
    /\ t # "sms" => b.sms_sent = a.sms_sent
    /\ t # "ai_analyses" => b.ai_analyses_used = a.ai_analyses_used
    /\ b.projects_count = a.projects_count
    /\ b.automations_count = a.automations_count
    /\ b.customers_count = a.customers_count

\* The frame of a step of an increment_usage call of session p for an
\* existing organization: the rows of the other organizations and periods
\* are the same, and the row of the call's period is the one before (a row
\* of zeros when there was none) except for the named counter.
IncrementFrame(p) ==
    LET o == arg'[p].org_id
        t == arg'[p].usage_type
        start == IF CanCall(p) THEN PeriodStart(Calendar[today])
                 ELSE loc[p].current_period_start
        before == UsageRows(usage, o, start)
    IN /\ OtherRows(usage', o, start) = OtherRows(usage, o, start)
       /\ before # {} => UsageRows(usage', o, start) # {}
       /\ \A b \in UsageRows(usage', o, start) :
             \E a \in (IF before = {}
                        THEN {[NoRow EXCEPT !.organization_id = o,
                                            !.period_start = start,
                                            !.period_end = b.period_end]}
                        ELSE before) :
                 SameButCounter(a, b, t)

\* C12: an increment_usage call for an organization changes only the named
\* counter of the organization's current period (the other counters, the
\* snapshot counts and the rows of other organizations and periods stay);
\* with a usage_type other than emails, sms and ai_analyses it changes no
\* counter and ends with TRUE, not with a raised error.
C12_OnlyNamedCounter ==
    [][\A p \in Procs :
          (Stepped(p) /\ op'[p] = "increment_usage" /\ arg'[p].org_id \in Orgs) =>
              /\ IncrementFrame(p)
              /\ (arg'[p].usage_type \notin CounterTypes /\ pc'[p] = "done") =>
                    result'[p] = True]_vars

\* Rows a and b are of the same organization and period.
SameKey(a, b) ==
    a.organization_id = b.organization_id /\ a.period_start = b.period_start

\* C13: the first get_current_usage or increment_usage of an organization in
\* a new month creates a row keyed by the first day of that month whose
\* cumulative counters are 0 (apart from the creating call's own increment),
\* whatever the earlier months' rows hold; the rows of the other months are
\* unchanged and no usage row is ever deleted.
C13_FreshPeriodRow ==
    [][/\ \A r \in usage : \E r2 \in usage' : SameKey(r, r2)
       /\ \A p \in Procs :
             (Stepped(p) /\ op'[p] \in {"get_current_usage", "increment_usage"}) =>
                IF CanCall(p)
                THEN /\ usage' = usage
                     /\ pc'[p] # "done" =>
                           loc'[p].current_period_start = [m |-> Calendar[today].m, d |-> 1]
                ELSE LET o == arg[p].org_id
                         start == loc[p].current_period_start
                         created == {r \in usage' : \A q \in usage : ~SameKey(q, r)}
                         own(t) == IF op[p] = "increment_usage" /\ arg[p].usage_type = t
                                   THEN arg[p].amount ELSE 0
                     IN /\ \A r \in created :
                              /\ r.organization_id = o /\ r.period_start = start
                              /\ r.emails_sent = own("emails")
                              /\ r.sms_sent = own("sms")
                              /\ r.ai_analyses_used = own("ai_analyses")
                        /\ \A r \in usage : r.period_start # start => r \in usage'
                        /\ (pc'[p] = "done" /\ ~result'[p].raised) =>
                              UsageRows(usage', o, start) # {}]_vars

\* C13 witness: an organization with emails counted in month 1 has a row
\* for month 2 with every cumulative counter at 0.
C13_Witness ==
    \E r1, r2 \in usage :
        /\ r1.organization_id = r2.organization_id
        /\ r1.period_start = [m |-> 1, d |-> 1] /\ r1.emails_sent > 0
        /\ r2.period_start = [m |-> 2, d |-> 1]
        /\ r2.emails_sent = 0 /\ r2.sms_sent = 0 /\ r2.ai_analyses_used = 0

LimitDefined == quota.limitType \in OwnKeys(quota.limits)

\* usage[key] + increment of the last evaluation.
Projected == UsageOf(quota.usage, quota.limitType) + quota.increment

\* C15: for an organization on appsumo_lifetime with appsumo_tier 1, 2 or
\* 3, the resolved limits are the catalog's appsumo[tier] merged with
\* plan_limits_override: the keys of both, the override's value for each of
\* its keys, the catalog's value for every other key, and the catalog entry
\* itself when there is no override.
C15_AppsumoLimitsMerged ==
    (/\ quota.called
     /\ quota.org # NullOrg
     /\ quota.org.plan_type = "appsumo_lifetime"
     /\ quota.org.appsumo_tier \in {1, 2, 3}) =>
        LET base == PLAN_LIMITS.appsumo[quota.org.appsumo_tier]
            over == quota.org.plan_limits_override
        IN /\ DOMAIN quota.limits = DOMAIN base \cup DOMAIN over
           /\ \A k \in DOMAIN over : quota.limits[k] = over[k]
           /\ \A k \in DOMAIN base \ DOMAIN over : quota.limits[k] = base[k]
           /\ over = NoOverride => quota.limits = base

\* C15 witness: a tier 2 organization whose override sets projects and
\* leaves the catalog's customers.
C15_Witness ==
    /\ quota.called
    /\ quota.org # NullOrg
    /\ quota.org.plan_type = "appsumo_lifetime"
    /\ quota.org.appsumo_tier = 2
    /\ quota.org.plan_limits_override = [projects |-> 2]
    /\ quota.limits.projects = 2
    /\ quota.limits.customers = 5000

C17_DeniedIffOverLimit ==
    (quota.called /\ quota.org # NullOrg) =>
        /\ ~quota.decision.threw
        /\ ~quota.decision.allowed <=>
              (/\ LimitDefined
               /\ quota.limits[quota.limitType] # -1
               /\ Projected > quota.limits[quota.limitType])
        /\ (/\ quota.org = OrgObject("free", NullTier, NULL, NoOverride)
            /\ quota.limitType = "projects"
            /\ quota.usage = [projects |-> 1]
            /\ quota.increment = 1) => ~quota.decision.allowed

\* C17 witness: the free organization with one project asks for a second.
C17_Witness ==
    /\ quota.called
    /\ quota.org = OrgObject("free", NullTier, NULL, NoOverride)
    /\ quota.limitType = "projects"
    /\ quota.usage = [projects |-> 1]
    /\ quota.increment = 1
    /\ ~quota.decision.allowed
    /\ quota.decision.message = "Upgrade to unlock more capacity"

\* C18: with a finite limit and usage[key] + increment within it, checkLimit
\* allows, with the warning exactly when the rounded percentage is at least
\* 80 and below 100, that is when 79.5 <= 100 * projected / limit < 99.5
\* (never for a limit of 0): 79 + 1 of 100 warns, 78 + 1 does not, reaching
\* the limit does not, and 100 + 1 of 100 is refused to an organization.
C18_WarningBand ==
    (quota.called /\ LimitDefined /\ quota.limits[quota.limitType] # -1) =>
        LET limit == quota.limits[quota.limitType]
            used == UsageOf(quota.usage, quota.limitType)
        IN /\ Projected <= limit =>
                 /\ quota.decision.allowed
                 /\ quota.decision.warning <=>
                       (/\ limit > 0
                        /\ 159 * limit <= 200 * Projected
                        /\ 200 * Projected < 199 * limit)
           /\ (limit = 100 /\ quota.increment = 1) =>
                 /\ used = 79 => quota.decision.allowed /\ quota.decision.warning
                 /\ used = 78 => quota.decision.allowed /\ ~quota.decision.warning
                 /\ used = 99 => quota.decision.allowed /\ ~quota.decision.warning
                 /\ (used = 100 /\ quota.org # NullOrg) =>
                       ~quota.decision.allowed /\ ~quota.decision.threw

\* C18 witness: 398 of 500 emails, 79.6 percent, is rounded to 80 and warns.
C18_Witness ==
    /\ quota.called
    /\ LimitDefined
    /\ quota.limits[quota.limitType] = 500
    /\ Projected = 398
    /\ quota.decision.allowed /\ quota.decision.warning

\* C19: every decision checkLimit returns carries current = usage[key] +
\* increment and limit = the resolved limit, whether it allows, allows with
\* the warning, allows because the limit is -1, or refuses.
C19_DecisionCarriesCurrentAndLimit ==
    (quota.called /\ LimitDefined /\ ~quota.decision.threw) =>
        /\ quota.decision.has_current
        /\ quota.decision.current = Projected
        /\ quota.decision.has_limit
        /\ quota.decision.limit = quota.limits[quota.limitType]

\* C20: a failed usage load is never treated as unlimited: a submit handler
\* of a tab that has its organization sends the project insert only after
\* a checkLimit that returned allowed.
C20_NoInsertWithoutCheck ==
    \A t \in Tabs :
        submit[t].issued => submit[t].checked /\ submit[t].decision.allowed

\* C21: checkLimit never throws for missing data: with a null organization
\* it resolves the free limits and returns a decision, allowed exactly when
\* usage[key] + increment is within the free limit.
C21_NullOrgDecided ==
    (quota.called /\ quota.org = NullOrg) =>
        /\ quota.limits = PLAN_LIMITS.free
        /\ ~quota.decision.threw
        /\ LimitDefined =>
              (quota.decision.allowed <=>
                  Projected <= quota.limits[quota.limitType])

\* Tab t handles a submit event in this step.
Submitted(t) == submit'[t] # submit[t] \/ inflight'[t] > inflight[t]

\* C22: the check changes nothing and does not close the check-then-act
\* gap: a submit handled with limits and usage loaded and the local usage at
\* limit - 1 is allowed and sends its insert whatever inserts are pending,
\* in this tab or another, and the step changes neither the stored nor the
\* local usage; so both of two such flows insert.
C22_CheckThenActGap ==
    [][\A t \in Tabs :
          (/\ Submitted(t)
           /\ orgLimits[t] # Undefined
           /\ currentUsage[t] # NullUsage
           /\ currentUsage[t].projects_count = orgLimits[t].projects - 1)
          => /\ submit'[t].checked
             /\ submit'[t].decision.allowed
             /\ submit'[t].issued
             /\ inflight'[t] = inflight[t] + 1
             /\ UNCHANGED <<live, usage, currentUsage, currentOrganization,
                            orgLimits>>]_vars

\* Both tabs checked at usage = limit - 1, both were allowed and both
\* inserted: the organization has limit + 1 projects.
C22_Witness ==
    /\ \A t \in Tabs :
          /\ orgLimits[t] # Undefined
          /\ orgLimits[t].projects = 1
          /\ submit[t].checked /\ submit[t].decision.allowed /\ submit[t].issued
          /\ submit[t].decision.current = orgLimits[t].projects
          /\ currentUsage[t] # NullUsage
          /\ currentUsage[t].projects_count = 1
    /\ InFlight = 0
    /\ live[DashOrg]["projects"] = 2

\* The tab has its limits and its usage.
Loaded(t) == orgLimits[t] # Undefined /\ currentUsage[t] # NullUsage

\* The tab's local projects_count is within its projects limit.
WithinLimit(t) == currentUsage[t].projects_count <= orgLimits[t].projects

\* C23: in one session with limits and usage loaded, a finite projects
\* limit and submits handled one after another, the insert is sent only
\* after checkLimit allowed it, the local projects_count grows by 1 exactly
\* when an insert succeeded and is unchanged when it failed, and a count
\* within the limit stays within it.
C23_SequentialSessionWithinLimit ==
    [][LET t == SessionTab
       IN (Loaded(t) /\ page[t] \in {"ready", "created"}) =>
            /\ orgLimits[t].projects >= 0
            /\ inflight'[t] > inflight[t] =>
                  /\ submit'[t].checked
                  /\ submit'[t].decision.allowed
                  /\ submit'[t].issued
            /\ currentUsage'[t] # currentUsage[t] =>
                  /\ currentUsage'[t] =
                        [currentUsage[t] EXCEPT !.projects_count = @ + 1]
                  /\ inflight'[t] = inflight[t] - 1
                  /\ live'[DashOrg]["projects"] = live[DashOrg]["projects"] + 1
            /\ (inflight'[t] < inflight[t] /\ live' # live) =>
                  currentUsage'[t].projects_count = currentUsage[t].projects_count + 1
            /\ (inflight'[t] < inflight[t] /\ live' = live) =>
                  currentUsage'[t] = currentUsage[t]
            /\ WithinLimit(t) => (Loaded(t)' /\ WithinLimit(t)')]_vars

\* The session created a project up to its limit and its next submit was
\* refused.
C23_Witness ==
    /\ Loaded(SessionTab)
    /\ page[SessionTab] = "created"
    /\ inflight[SessionTab] = 0
    /\ currentUsage[SessionTab].projects_count = orgLimits[SessionTab].projects
    /\ live[DashOrg]["projects"] = 1
    /\ submit[SessionTab].checked
    /\ ~submit[SessionTab].decision.allowed
    /\ ~submit[SessionTab].issued

\* The sum of the tiers of the codes listed in an appsumo_codes array.
RECURSIVE SumTiers(_)
SumTiers(list) ==
    IF list = << >> THEN 0
    ELSE codes[Head(list)].tier + SumTiers(Tail(list))

\* C24: whatever redemptions ran and however they interleaved, an
\* organization's appsumo_tier is null when its appsumo_codes is empty and
\* else the sum of the tiers of the codes listed there, at most 3.
C24_TierIsCappedSumOfListedCodes ==
    \A o \in Orgs :
        orgs[o].appsumo_tier =
            IF orgs[o].appsumo_codes = << >> THEN NullTier
            ELSE Min(3, SumTiers(orgs[o].appsumo_codes))

\* Two redemptions for one organization overlapped: both codes are
\* redeemed by it, and the one that wrote last listed only its own code.
C24_Witness ==
    \E o \in Orgs :
        /\ Len(orgs[o].appsumo_codes) = 1
        /\ \E c, d \in DOMAIN codes :
              /\ c # d
              /\ codes[c].is_redeemed /\ codes[c].redeemed_by_org_id = o
              /\ codes[d].is_redeemed /\ codes[d].redeemed_by_org_id = o
              /\ codes[c].tier # codes[d].tier

\* The numeric limits of a plan.
NumericLimits ==
    {"projects", "automations", "customers", "emails_monthly", "sms_monthly",
     "ai_analyses", "team_members"}

\* Limit a is at least limit b, -1 (unlimited) ranking above every number.
AtLeast(a, b) == a = -1 \/ (b # -1 /\ a >= b)

\* C25: a successful redemption never lowers an organization's effective
\* limits: each numeric limit resolved from the row the redemption wrote is
\* at least the one resolved from the row before it.
C25_RedemptionNeverLowersLimits ==
    [][\A o \in Orgs :
          orgs'[o] # orgs[o] =>
              \A k \in NumericLimits :
                  AtLeast(getOrgLimits(SelectOrg(o))'[k],
                          getOrgLimits(SelectOrg(o))[k])]_vars

====
